---------------------------- MODULE Spec2Model ----------------------------
(***************************************************************************)
(* Session synchronisation protocol of the image chat client.              *)
(*                                                                         *)
(* ChatProvider (frontend/src/contexts/ChatContext.tsx) keeps the           *)
(* conversation, the processing lock, the upload progress and the question *)
(* timeout; SocketProvider (contexts/SocketContext.tsx) keeps the channel. *)
(* Every handler of the two providers is one action.  The browser's event  *)
(* loop runs one handler at a time, and React re-renders between two       *)
(* handlers, so a handler always reads the state the previous one left.    *)
(*                                                                         *)
(* Left out: the timestamp of a message (new Date().toISOString()), the    *)
(* styling, and the 60 s delay of the timer, which may fire at any moment  *)
(* while it is scheduled.                                                  *)
(***************************************************************************)
EXTENDS Integers, Sequences, FiniteSets, TLC

VARIABLES
    isConnected,        \* SocketProvider: useState(false)
    socketId,           \* socket.id, 0 when the socket has none
    connects,           \* number of connections made so far
    messages,           \* ChatProvider: useState<MessageType[]>([])
    imageUrl,           \* ChatProvider: useState<string>('')
    isProcessing,       \* ChatProvider: useState<boolean>(false)
    uploadProgress,     \* ChatProvider: useState<number>(0)
    responseTimeoutRef, \* useRef<number | null>(null), 0 for null
    timers,             \* timers scheduled by window.setTimeout, not yet fired or cleared
    timerCount,         \* number of timers window.setTimeout has handed out
    xhrs,               \* the XMLHttpRequests uploadImage has sent, in order
    sent,               \* what sendToSocket handed to socket.emit, in order
    storedPath,         \* localStorage['current_image_path']
    outstanding,        \* history: requests issued and not yet ended, in order
    lockHolder          \* history: what last took the lock, NoReq while it is free

vars == <<isConnected, socketId, connects, messages, imageUrl, isProcessing,
          uploadProgress, responseTimeoutRef, timers, timerCount, xhrs, sent,
          storedPath, outstanding, lockHolder>>

socketVars == <<isConnected, socketId, connects>>
timerVars == <<responseTimeoutRef, timers, timerCount>>
historyVars == <<outstanding, lockHolder>>

-----------------------------------------------------------------------------
(* Bounds of the model *)

MaxMessages == 2
MaxSent == 2
MaxUploads == 2
MaxTimers == 2
MaxConnects == 2
UploadTotal == 2

-----------------------------------------------------------------------------
(* Values *)

NoTimer == 0
NoSocketId == 0
NoPath == "null"
NoImage == ""

\* What the user types in the text field, the questions a caller passes to
\* sendMessage, and the payloads the backend sends.
Inputs == {" ", "what is this?"}
Questions == {"what is this?"}
ServerContents == {"answer"}
NoAnalysis == ""
Analyses == {NoAnalysis, "analysis"}
ErrorMessages == {"boom"}

\* String.prototype.trim on the inputs of the model.
Trim(s) == IF s = " " THEN "" ELSE s

\* Files the user can pick: name, MIME type, size in bytes.
MaxFileSize == 5 * 1024 * 1024
Files ==
    { [name |-> "x.jpg", type |-> "image/jpeg", size |-> 2 * 1024 * 1024],
      [name |-> "big.png", type |-> "image/png", size |-> 6 * 1024 * 1024],
      [name |-> "notes.txt", type |-> "text/plain", size |-> 1024] }

\* file.type.match('image.*') on the types of the model.
IsImageType(type) == type \in {"image/jpeg", "image/png"}

\* URL.createObjectURL: a non-empty blob: URL that does not depend on the file's
\* name (the uuid in it is left out).
ObjectUrl(file) == "blob:preview"

\* What the upload endpoint can answer: the HTTP status and the response text,
\* the text as what JSON.parse makes of it.
\*   text = "empty"   : responseText is ''
\*   text = "invalid" : JSON.parse throws
\*   text = "json"    : an object with success, metadata (hasMetadata) holding
\*                      file_info.file_path, and error ("" when it has none)
Response(status, text, success, hasMetadata, path, error) ==
    [status |-> status, text |-> text, success |-> success,
     hasMetadata |-> hasMetadata, file_path |-> path, error |-> error]

ServerPath == "/tmp/x.jpg"

Responses ==
    { Response(200, "json", TRUE, TRUE, ServerPath, ""),
      Response(200, "json", FALSE, FALSE, "", "bad image"),
      Response(200, "invalid", FALSE, FALSE, "", ""),
      Response(300, "empty", FALSE, FALSE, "", ""),
      Response(500, "json", FALSE, FALSE, "", "server exploded"),
      Response(500, "json", FALSE, FALSE, "", ""),
      Response(500, "invalid", FALSE, FALSE, "", "") }

\* Messages of the conversation.
UserMessage(content) == [content |-> content, sender |-> "user"]
AiMessage(content) == [content |-> content, sender |-> "ai"]

ProcessedText == "Image processed successfully! I can now answer questions about it."
AskDisconnectedText == "There is a problem processing your request, please try again later"
TimeoutText == "Server timeout. Please try again."
UploadDisconnectedText == "Socket connection not established. Image preview is available, but you cannot communicate with the AI."
UploadNetworkErrorText == "Error uploading image. Please try again later."

\* Outbound events.
Emit(event, path, content) ==
    [event |-> event, image_path |-> path, content |-> content,
     connected |-> isConnected]

\* Requests, for the history variables.
NoReq == [kind |-> "none", id |-> 0]
Question(t) == [kind |-> "question", id |-> t]
Upload(i) == [kind |-> "upload", id |-> i]
TypingHolder == [kind |-> "typing", id |-> 0]

-----------------------------------------------------------------------------
(* Helpers *)

\* Math.round((loaded / total) * 100), for 0 <= loaded <= total, total > 0.
Round100(loaded, total) == (200 * loaded + total) \div (2 * total)

\* An addMessage that puts the new message first.
addMessageFirst(prev, message) == <<message>> \o prev

\* setMessages((prev) => [...prev, message])
addMessage(prev, message) == Append(prev, message)

\* A handler that leaves the timer and its handle alone.
CancelTimeoutSkipped == UNCHANGED timerVars

\* if (responseTimeoutRef.current) { clearTimeout(...); responseTimeoutRef.current = null; }
CancelTimeout ==
    /\ timers' = IF responseTimeoutRef # NoTimer
                 THEN timers \ {responseTimeoutRef}
                 ELSE timers
    /\ responseTimeoutRef' = NoTimer
    /\ UNCHANGED timerCount

\* The history of requests: a request ends at its terminal outcome.  The
\* inbound events carry no request identifier: a message, a metadata_result or
\* an error ends the oldest request that is outstanding; a timeout ends the
\* question that armed it, an upload's failure that upload, a disconnect all.
Without(seq, r) == SelectSeq(seq, LAMBDA x : x # r)
EndOldest(seq) == IF seq = <<>> THEN seq ELSE Tail(seq)

\* Who holds the lock after a step that leaves it at `lock`, when `taker`
\* is what the step took it for (NoReq when the step takes nothing).
HolderAfter(lock, taker) ==
    IF ~lock THEN NoReq
    ELSE IF taker # NoReq THEN taker
    ELSE lockHolder

-----------------------------------------------------------------------------
(* SocketProvider: the lifecycle of the channel *)

Init ==
    /\ isConnected = FALSE
    /\ socketId = NoSocketId
    /\ connects = 0
    /\ messages = <<>>
    /\ imageUrl = NoImage
    /\ isProcessing = FALSE
    /\ uploadProgress = 0
    /\ responseTimeoutRef = NoTimer
    /\ timers = {}
    /\ timerCount = 0
    /\ xhrs = <<>>
    /\ sent = <<>>
    /\ storedPath = NoPath
    /\ outstanding = <<>>
    /\ lockHolder = NoReq

\* socketInstance.on('connect'): the channel hands out a fresh socket.id.
OnConnect ==
    /\ ~isConnected
    /\ connects < MaxConnects
    /\ isConnected' = TRUE
    /\ connects' = connects + 1
    /\ socketId' = connects + 1
    /\ UNCHANGED <<messages, imageUrl, isProcessing, uploadProgress, timerVars,
                   xhrs, sent, storedPath, historyVars>>

\* socketInstance.on('connect_error'): a connection attempt failed.
OnConnectError ==
    /\ ~isConnected
    /\ isConnected' = FALSE
    /\ UNCHANGED <<socketId, connects, messages, imageUrl, isProcessing,
                   uploadProgress, timerVars, xhrs, sent, storedPath, historyVars>>

\* The two 'disconnect' handlers: SocketProvider's and ChatProvider's.  The
\* channel drops its socket.id with the connection.
OnDisconnect ==
    /\ isConnected
    /\ isConnected' = FALSE
    /\ socketId' = NoSocketId
    /\ isProcessing' = FALSE
    /\ CancelTimeout
    /\ outstanding' = <<>>
    /\ lockHolder' = NoReq
    /\ UNCHANGED <<connects, messages, imageUrl, uploadProgress, xhrs, sent,
                   storedPath>>

-----------------------------------------------------------------------------
(* ChatProvider: the inbound events of the channel *)

\* A 'message' handler that leaves the lock as it finds it.
LockAfterMessageKept == isProcessing

\* The lock a 'message' event leaves: setIsProcessing(false).
LockAfterMessage == FALSE

OnMessage(content) ==
    /\ isConnected
    /\ Len(messages) < MaxMessages
    /\ messages' = addMessage(messages, AiMessage(content))
    /\ isProcessing' = LockAfterMessage
    /\ CancelTimeout
    /\ outstanding' = EndOldest(outstanding)
    /\ lockHolder' = HolderAfter(isProcessing', NoReq)
    /\ UNCHANGED <<socketVars, imageUrl, uploadProgress, xhrs, sent, storedPath>>

\* A 'typing' handler that can only take the lock.
LockAfterTypingTaken(status) == TRUE

\* The lock a 'typing' event leaves: setIsProcessing(data.status).
LockAfterTyping(status) == status

OnTyping(status) ==
    /\ isConnected
    /\ isProcessing' = LockAfterTyping(status)
    /\ lockHolder' = HolderAfter(isProcessing', IF isProcessing THEN NoReq ELSE TypingHolder)
    /\ UNCHANGED <<socketVars, messages, imageUrl, uploadProgress, timerVars,
                   xhrs, sent, storedPath, outstanding>>

\* The lock a 'metadata_result' event leaves: setIsProcessing(false).
LockAfterMetadataResult == FALSE

OnMetadataResult(analysis) ==
    /\ isConnected
    /\ Len(messages) < MaxMessages
    /\ messages' = addMessage(messages,
                      AiMessage(IF analysis # NoAnalysis THEN analysis ELSE ProcessedText))
    /\ isProcessing' = LockAfterMetadataResult
    /\ uploadProgress' = 100
    /\ CancelTimeout
    /\ outstanding' = EndOldest(outstanding)
    /\ lockHolder' = HolderAfter(isProcessing', NoReq)
    /\ UNCHANGED <<socketVars, imageUrl, xhrs, sent, storedPath>>

OnError(message) ==
    /\ isConnected
    /\ Len(messages) < MaxMessages
    /\ messages' = addMessage(messages, AiMessage("Error: " \o message))
    /\ isProcessing' = FALSE
    /\ CancelTimeout
    /\ outstanding' = EndOldest(outstanding)
    /\ lockHolder' = NoReq
    /\ UNCHANGED <<socketVars, imageUrl, uploadProgress, xhrs, sent, storedPath>>

-----------------------------------------------------------------------------
(* ChatProvider: sendMessage and its timeout *)

\* A timeout callback that forgets to clear the handle.
RefAfterTimeoutKept(t) == responseTimeoutRef

\* The handle the timeout callback leaves: responseTimeoutRef.current = null.
RefAfterTimeout(t) == NoTimer

\* A timeout callback that leaves the lock as it finds it.
LockAfterTimeoutKept == isProcessing

\* The lock the timeout callback leaves: setIsProcessing(false).
LockAfterTimeout == FALSE

\* The callback handed to window.setTimeout, for the timer t.
OnTimeout(t) ==
    /\ t \in timers
    /\ Len(messages) < MaxMessages
    /\ isProcessing' = LockAfterTimeout
    /\ messages' = addMessage(messages, AiMessage(TimeoutText))
    /\ responseTimeoutRef' = RefAfterTimeout(t)
    /\ timers' = timers \ {t}
    /\ outstanding' = Without(outstanding, Question(t))
    /\ lockHolder' = HolderAfter(isProcessing', NoReq)
    /\ UNCHANGED <<socketVars, imageUrl, uploadProgress, timerCount, xhrs, sent,
                   storedPath>>

\* A sendMessage that takes the lock before it looks at the channel.
AskDisconnectedLocked(content) ==
    /\ Len(messages) + 2 <= MaxMessages
    /\ messages' = addMessage(addMessage(messages, UserMessage(content)),
                              AiMessage(AskDisconnectedText))
    /\ isProcessing' = TRUE
    /\ lockHolder' = Question(timerCount + 1)
    /\ UNCHANGED <<timerVars, sent, outstanding>>

\* sendMessage while the channel is down: the user's message, then the notice.
AskDisconnected(content) ==
    /\ Len(messages) + 2 <= MaxMessages
    /\ messages' = addMessage(addMessage(messages, UserMessage(content)),
                              AiMessage(AskDisconnectedText))
    /\ UNCHANGED <<isProcessing, timerVars, sent, historyVars>>

\* A sendMessage that arms a timer without clearing the one before.
TimersAfterClearKept == timers

\* if (responseTimeoutRef.current) clearTimeout(responseTimeoutRef.current)
TimersAfterClear ==
    IF responseTimeoutRef # NoTimer THEN timers \ {responseTimeoutRef} ELSE timers

\* sendMessage while the channel is up: lock, timer, 'message' event.
AskConnected(content) ==
    /\ Len(messages) < MaxMessages
    /\ Len(sent) < MaxSent
    /\ timerCount < MaxTimers
    /\ messages' = addMessage(messages, UserMessage(content))
    /\ isProcessing' = TRUE
    /\ timerCount' = timerCount + 1
    /\ timers' = TimersAfterClear \cup {timerCount + 1}
    /\ responseTimeoutRef' = timerCount + 1
    /\ sent' = Append(sent, Emit("message", storedPath, content))
    /\ outstanding' = Append(outstanding, Question(timerCount + 1))
    /\ lockHolder' = Question(timerCount + 1)

\* A sendMessage that shows the user's message before it looks for an image.
AskWithoutImageShown(content) ==
    /\ Len(messages) < MaxMessages
    /\ messages' = addMessage(messages, UserMessage(content))
    /\ UNCHANGED <<isProcessing, timerVars, sent, historyVars>>

\* sendMessage without an image: if (!imageUrl) return.
AskWithoutImage(content) ==
    UNCHANGED <<messages, isProcessing, timerVars, sent, historyVars>>

sendMessage(content) ==
    /\ IF imageUrl = NoImage THEN AskWithoutImage(content)
       ELSE IF ~isConnected THEN AskDisconnected(content)
       ELSE AskConnected(content)
    /\ UNCHANGED <<socketVars, imageUrl, uploadProgress, xhrs, storedPath>>

-----------------------------------------------------------------------------
(* ChatProvider: uploadImage and the callbacks of its XMLHttpRequest *)

\* The request of the i-th upload.
Xhr(state, loaded, id) == [state |-> state, loaded |-> loaded, socket_id |-> id]

\* An uploadImage that keeps the identifier of the first connection.
CorrelationIdOfFirstConnection == IF connects > 0 THEN 1 ELSE NoSocketId

\* The socket_id field of the form: socket.id as it is when uploadImage runs.
CorrelationId == socketId

\* An uploadImage that says nothing when the channel is down.
UploadDisconnectedSilent ==
    UNCHANGED <<messages, isProcessing, xhrs, historyVars>>

\* uploadImage while the channel is down: the notice, and return.
UploadDisconnected ==
    /\ Len(messages) < MaxMessages
    /\ messages' = addMessage(messages, AiMessage(UploadDisconnectedText))
    /\ UNCHANGED <<isProcessing, xhrs, historyVars>>

\* The catch block is left out: nothing of the try block that the model keeps
\* can throw (the listeners run later, outside the try).
uploadImage(file) ==
    /\ imageUrl' = ObjectUrl(file)
    /\ uploadProgress' = 0
    /\ IF ~isConnected
       THEN UploadDisconnected
       ELSE /\ Len(xhrs) < MaxUploads
            /\ isProcessing' = TRUE
            /\ xhrs' = Append(xhrs, Xhr("open", 0, CorrelationId))
            /\ outstanding' = Append(outstanding, Upload(Len(xhrs) + 1))
            /\ lockHolder' = Upload(Len(xhrs) + 1)
            /\ UNCHANGED messages
    /\ UNCHANGED <<socketVars, timerVars, sent, storedPath>>

\* The progress the 'progress' listener of an upload writes.
ProgressAfter(i, loaded, lengthComputable) ==
    IF lengthComputable THEN Round100(loaded, UploadTotal) ELSE uploadProgress

\* xhr.upload 'progress': the bytes sent so far never decrease.  An event whose
\* length is not computable changes nothing, and its count is not kept.
OnProgress(i, loaded, lengthComputable) ==
    /\ i \in 1..Len(xhrs)
    /\ xhrs[i].state = "open"
    /\ loaded >= xhrs[i].loaded
    /\ xhrs' = IF lengthComputable THEN [xhrs EXCEPT ![i].loaded = loaded] ELSE xhrs
    /\ uploadProgress' = ProgressAfter(i, loaded, lengthComputable)
    /\ UNCHANGED <<socketVars, messages, imageUrl, isProcessing, timerVars, sent,
                   storedPath, historyVars>>

\* xhr.status >= 200 && xhr.status < 300
IsHttpSuccess(status) == status >= 200 /\ status < 300

\* response.success && response.metadata
IsAppSuccess(r) == r.success /\ r.hasMetadata

\* JSON.parse(xhr.responseText).error || 'Upload failed', or 'Upload failed'
UploadErrorText(r) ==
    IF r.text = "json" /\ r.error # "" THEN r.error ELSE "Upload failed"

\* A 'load' listener that takes the lock again when the upload is accepted.
LockAfterUploadSuccessTaken == TRUE

\* A 'load' listener that releases the lock as soon as the upload is accepted.
LockAfterUploadSuccessReleased == FALSE

\* The lock the 'load' listener leaves after an upload the server accepted.
LockAfterUploadSuccess == isProcessing

\* xhr 'load' with a 2xx status.
LoadHttpSuccess(i, r) ==
    IF r.text = "json" /\ IsAppSuccess(r)
    THEN /\ Len(sent) < MaxSent
         /\ sent' = Append(sent, Emit("analyze_image", r.file_path, ""))
         /\ isProcessing' = LockAfterUploadSuccess
         /\ outstanding' = outstanding
         /\ UNCHANGED messages
    ELSE \* JSON.parse threw, or the payload reports a failure: nothing is done
         /\ outstanding' = Without(outstanding, Upload(i))
         /\ UNCHANGED <<sent, isProcessing, messages>>

\* xhr 'load' with any other status.
LoadHttpFailure(i, r) ==
    IF r.text = "invalid"
    THEN \* JSON.parse threw before addMessage
         /\ outstanding' = Without(outstanding, Upload(i))
         /\ UNCHANGED <<sent, isProcessing, messages>>
    ELSE /\ Len(messages) < MaxMessages
         /\ messages' = addMessage(messages,
                           AiMessage("Error uploading image: " \o UploadErrorText(r)))
         /\ isProcessing' = FALSE
         /\ outstanding' = Without(outstanding, Upload(i))
         /\ UNCHANGED sent

OnLoad(i, r) ==
    /\ i \in 1..Len(xhrs)
    /\ xhrs[i].state = "open"
    /\ xhrs' = [xhrs EXCEPT ![i] = Xhr("done", 0, xhrs[i].socket_id)]
    /\ IF IsHttpSuccess(r.status) THEN LoadHttpSuccess(i, r) ELSE LoadHttpFailure(i, r)
    /\ lockHolder' = HolderAfter(isProcessing', NoReq)
    /\ UNCHANGED <<socketVars, imageUrl, uploadProgress, timerVars, storedPath>>

\* xhr 'error': the transport failed.
OnXhrError(i) ==
    /\ i \in 1..Len(xhrs)
    /\ xhrs[i].state = "open"
    /\ Len(messages) < MaxMessages
    /\ xhrs' = [xhrs EXCEPT ![i] = Xhr("done", 0, xhrs[i].socket_id)]
    /\ messages' = addMessage(messages, AiMessage(UploadNetworkErrorText))
    /\ isProcessing' = FALSE
    /\ outstanding' = Without(outstanding, Upload(i))
    /\ lockHolder' = NoReq
    /\ UNCHANGED <<socketVars, imageUrl, uploadProgress, timerVars, sent, storedPath>>

-----------------------------------------------------------------------------
(* ChatProvider: clearImage *)

\* A clearImage that forgets the conversation.
MessagesAfterClearKept == messages

\* The conversation clearImage leaves: setMessages([]).
MessagesAfterClear == <<>>

\* What clearImage emits: 'clear_image', only if (isConnected).
SentAfterClear ==
    IF isConnected THEN Append(sent, Emit("clear_image", "", "")) ELSE sent

clearImage ==
    /\ isConnected => Len(sent) < MaxSent
    /\ imageUrl' = NoImage
    /\ storedPath' = NoPath
    /\ sent' = SentAfterClear
    /\ messages' = MessagesAfterClear
    /\ UNCHANGED <<socketVars, isProcessing, uploadProgress, timerVars, xhrs,
                   historyVars>>

-----------------------------------------------------------------------------
(* The user interface: what the components let the user do *)

\* MessageInput.handleSubmit, behind the disabled field and button.
HandleSubmit(input) ==
    /\ imageUrl # NoImage
    /\ Trim(input) # ""
    /\ ~isProcessing
    /\ sendMessage(input)

\* ImageUploader.handleFile, behind the drop zone shown while there is no image.
HandleFile(file) ==
    /\ imageUrl = NoImage
    /\ IsImageType(file.type)
    /\ file.size <= MaxFileSize
    /\ uploadImage(file)

\* The "Remove image" button, shown while there is an image.
ClickClear ==
    /\ imageUrl # NoImage
    /\ clearImage

-----------------------------------------------------------------------------
(* Specifications *)

\* What the channel, the timer and the uploads do on their own.  The channel
\* delivers events only while it is connected.
TerminalEvent ==
    \/ OnConnect
    \/ OnConnectError
    \/ OnDisconnect
    \/ \E c \in ServerContents : OnMessage(c)
    \/ \E a \in Analyses : OnMetadataResult(a)
    \/ \E m \in ErrorMessages : OnError(m)
    \/ \E t \in 1..MaxTimers : OnTimeout(t)
    \/ \E i \in 1..MaxUploads, l \in 0..UploadTotal, c \in BOOLEAN : OnProgress(i, l, c)
    \/ \E i \in 1..MaxUploads, r \in Responses : OnLoad(i, r)
    \/ \E i \in 1..MaxUploads : OnXhrError(i)

Typing == \E status \in BOOLEAN : OnTyping(status)

\* Any component may call the three operations of the context at any time.
Next ==
    \/ \E c \in Questions : sendMessage(c)
    \/ \E f \in Files : uploadImage(f)
    \/ clearImage
    \/ Typing
    \/ TerminalEvent

Spec == Init /\ [][Next]_vars

\* The operations called only the way the components of the repository call them.
UserAction ==
    \/ \E c \in Inputs : HandleSubmit(c)
    \/ \E f \in Files : HandleFile(f)
    \/ ClickClear

NextUI == UserAction \/ Typing \/ TerminalEvent

SpecUI == Init /\ [][NextUI]_vars

\* The same without typing events: calls and terminal outcomes only.
NextProtocol == UserAction \/ TerminalEvent

SpecProtocol == Init /\ [][NextProtocol]_vars

\* The conversation is bounded only for the sake of the check: a step leaves room
\* in it for the message of a timer that is scheduled, so that the bound never
\* keeps a timer from firing.
TimerHasRoom == timers' # {} => Len(messages') < MaxMessages

NextLive ==
    \/ (\E c \in Questions : sendMessage(c)) /\ TimerHasRoom
    \/ (\E f \in Files : uploadImage(f)) /\ TimerHasRoom
    \/ clearImage /\ TimerHasRoom
    \/ Typing /\ TimerHasRoom
    \/ TerminalEvent /\ TimerHasRoom

\* window.setTimeout: a timer that stays scheduled fires.
TimerFairness == \A t \in 1..MaxTimers : WF_vars(OnTimeout(t))

SpecLive == Init /\ [][NextLive]_vars /\ TimerFairness

-----------------------------------------------------------------------------
(* Vocabulary of the claims *)

LockFalls == isProcessing /\ ~isProcessing'
RequestEnds == Len(outstanding') < Len(outstanding)
RequestIssued == Len(outstanding') > Len(outstanding)
HeldByRequest == lockHolder.kind \in {"question", "upload"}
LatestUpload == Len(xhrs)

\* A callback of the i-th upload runs in this step.
UploadCallback(i) ==
    \/ \E l \in 0..UploadTotal, c \in BOOLEAN : OnProgress(i, l, c)
    \/ \E r \in Responses : OnLoad(i, r)
    \/ OnXhrError(i)

-----------------------------------------------------------------------------
(* C1 *)

\* C1: the lock goes from true to false exactly once per outstanding request:
\* a step takes the lock from true to false if and only if a request reaches its
\* terminal outcome in that step, and the lock it releases was taken by a request.
C1_LockFallsOncePerRequest ==
    [][ /\ LockFalls => (RequestEnds /\ HeldByRequest)
        /\ RequestEnds => LockFalls ]_vars

-----------------------------------------------------------------------------
(* C2 *)

AnalyzeImage(path) == Emit("analyze_image", path, "")

\* An upload answered with HTTP 200 and a payload that reports success and
\* carries the path of the stored file.
AcceptedUpload(r) == r.status = 200 /\ r.success /\ r.file_path = ServerPath

\* C2: uploadImage called while connected sets the preview at once; the 'load'
\* callback of an accepted upload emits exactly one analyze_image event with
\* the server's file path, appends no message and leaves the lock as it is;
\* the metadata_result event leaves the lock released.
C2_AcceptedUploadKeepsLock ==
    [][ /\ \A f \in Files :
             (isConnected /\ uploadImage(f)) => imageUrl' = ObjectUrl(f)
        /\ \A i \in 1..MaxUploads, r \in Responses :
             (AcceptedUpload(r) /\ OnLoad(i, r))
             => /\ sent' = Append(sent, AnalyzeImage(r.file_path))
                /\ messages' = messages
                /\ isProcessing' = isProcessing
        /\ \A a \in Analyses : OnMetadataResult(a) => ~isProcessing' ]_vars

\* An accepted upload whose analysis is awaited: the preview is shown, the
\* analyze_image event is out, nothing was appended, the lock is still held.
C2_Witness ==
    /\ imageUrl = ObjectUrl(CHOOSE f \in Files : TRUE)
    /\ xhrs # <<>>
    /\ xhrs[1].state = "done"
    /\ sent = <<[event |-> "analyze_image", image_path |-> ServerPath,
                 content |-> "", connected |-> TRUE]>>
    /\ messages = <<>>
    /\ isProcessing
    /\ lockHolder = Upload(1)
    /\ uploadProgress = 100

-----------------------------------------------------------------------------
(* C3 *)

\* C3: the timeout that fires is the one the last ask armed; it appends exactly
\* one timeout message, releases the lock and clears the handle, leaving no
\* timer scheduled.  A message event that arrives with the handle cleared
\* appends its content as one assistant message and touches no timer.
C3_TimeoutThenLateMessage ==
    [][ /\ \A t \in 1..MaxTimers :
             OnTimeout(t)
             => /\ t = responseTimeoutRef
                /\ messages' = Append(messages, AiMessage(TimeoutText))
                /\ ~isProcessing'
                /\ responseTimeoutRef' = NoTimer
                /\ timers' = {}
        /\ \A c \in ServerContents :
             (responseTimeoutRef = NoTimer /\ OnMessage(c))
             => /\ messages' = Append(messages, AiMessage(c))
                /\ timers' = timers
                /\ responseTimeoutRef' = NoTimer ]_vars

\* A question timed out and the answer came late: the timeout message is
\* followed by the assistant's message, and no timer is left.
C3_Witness ==
    /\ timerCount >= 1
    /\ Len(messages) >= 2
    /\ messages[Len(messages) - 1] = AiMessage(TimeoutText)
    /\ messages[Len(messages)] \in {AiMessage(c) : c \in ServerContents}
    /\ responseTimeoutRef = NoTimer
    /\ timers = {}
    /\ ~isProcessing

-----------------------------------------------------------------------------
(* C4 *)

\* C4: sendMessage called with an image while the channel is down appends the
\* user's message and then the notice, two messages; it arms no timer, sends
\* nothing, and the lock is false before and after.
C4_AskWhileDisconnected ==
    [][ \A c \in Questions :
          (imageUrl # NoImage /\ ~isConnected /\ sendMessage(c))
          => /\ messages' = messages \o <<UserMessage(c), AiMessage(AskDisconnectedText)>>
             /\ timers' = timers
             /\ responseTimeoutRef' = responseTimeoutRef
             /\ responseTimeoutRef = NoTimer
             /\ sent' = sent
             /\ ~isProcessing
             /\ ~isProcessing' ]_vars

\* A question asked while the channel is down.
C4_Witness ==
    /\ ~isConnected
    /\ imageUrl # NoImage
    /\ \E c \in Questions :
         messages = <<UserMessage(c), AiMessage(AskDisconnectedText)>>
    /\ ~isProcessing
    /\ timers = {}
    /\ sent = <<>>

-----------------------------------------------------------------------------
(* C5 *)

ClearImageEvent == Emit("clear_image", "", "")

\* The state clearImage leaves, but for the log of what was sent.
Cleared == messages = <<>> /\ imageUrl = NoImage /\ storedPath = NoPath

\* C5: clearImage leaves the conversation and the image reference empty,
\* connected or not; called in the state a clearImage leaves, it changes
\* nothing of the session; it emits clear_image when connected and only then.
C5_ClearImageIdempotent ==
    [][ clearImage
        => /\ messages' = <<>>
           /\ imageUrl' = NoImage
           /\ Cleared => UNCHANGED <<socketVars, messages, imageUrl, isProcessing,
                                     uploadProgress, timerVars, xhrs, storedPath>>
           /\ sent' = IF isConnected THEN Append(sent, ClearImageEvent) ELSE sent ]_vars

\* clearImage called twice while connected, with nothing in between that sends.
C5_Witness ==
    /\ Cleared
    /\ isConnected
    /\ Len(sent) >= 2
    /\ sent[Len(sent)].event = "clear_image"
    /\ sent[Len(sent) - 1].event = "clear_image"

-----------------------------------------------------------------------------
(* C6 *)

\* C6: with a second upload started while the first is in flight, no progress
\* or terminal callback of the earlier upload overwrites uploadProgress, and
\* none releases the lock the later upload holds.
C6_EarlierUploadLeavesLaterAlone ==
    [][ \A i \in 1..MaxUploads :
          (i < LatestUpload /\ xhrs[LatestUpload].state = "open" /\ UploadCallback(i))
          => /\ uploadProgress' = uploadProgress
             /\ (lockHolder = Upload(LatestUpload) => isProcessing') ]_vars

-----------------------------------------------------------------------------
(* C7 *)

\* C7: the lock is true if and only if a request (an upload or a question) has
\* been issued and has not reached a terminal outcome.
C7_LockIffOutstanding == isProcessing <=> (outstanding # <<>>)

-----------------------------------------------------------------------------
(* C8 *)

\* C8: a pending question timeout implies that the lock is held, and held for a
\* question.
C8_TimerOnlyUnderQuestionLock ==
    responseTimeoutRef # NoTimer => (isProcessing /\ lockHolder.kind = "question")

-----------------------------------------------------------------------------
(* C9 *)

\* C9: a timeout that fires while the lock is held releases the lock of the
\* question that armed it, and a step that releases the lock of a question
\* leaves that question's timer cancelled.
C9_TimeoutReleasesOwnLock ==
    [][ \A t \in 1..MaxTimers :
          /\ (OnTimeout(t) /\ isProcessing) => lockHolder = Question(t)
          /\ (LockFalls /\ lockHolder = Question(t)) => t \notin timers' ]_vars

-----------------------------------------------------------------------------
(* C10 *)

\* C10: at most one request is in flight: a request is issued only while the
\* lock is free and no other request is outstanding.
C10_SingleFlight ==
    [][ RequestIssued => (~isProcessing /\ outstanding = <<>>) ]_vars

-----------------------------------------------------------------------------
(* C11 *)

\* An upload that ends otherwise than accepted: a status outside 200..299, or
\* a 2xx status with a payload that reports a failure.
UploadFailed(r) ==
    \/ ~IsHttpSuccess(r.status)
    \/ (r.text = "json" /\ ~IsAppSuccess(r))

\* One assistant message was appended in this step.
OneAiMessageAppended ==
    /\ Len(messages') = Len(messages) + 1
    /\ SubSeq(messages', 1, Len(messages)) = messages
    /\ messages'[Len(messages')].sender = "ai"

\* C11: every terminal outcome of an upload other than an accepted one (a 2xx
\* answer whose payload reports a failure, a status outside 2xx, a failure of
\* the transport) leaves the lock false and appends one error message.
C11_UploadFailureReleases ==
    [][ \A i \in 1..MaxUploads :
          /\ \A r \in Responses :
                (UploadFailed(r) /\ OnLoad(i, r))
                => (~isProcessing' /\ OneAiMessageAppended)
          /\ OnXhrError(i) => (~isProcessing' /\ OneAiMessageAppended) ]_vars

-----------------------------------------------------------------------------
(* C12 *)

\* An upload begins in this step.
UploadBegins == \E f \in Files : uploadImage(f)

\* The latest upload is in flight.
LatestUploadInFlight == xhrs # <<>> /\ xhrs[LatestUpload].state = "open"

\* C12: uploadProgress is an integer of 0..100, a new upload resets it to 0,
\* and while the latest upload is in flight no step other than the start of
\* an upload lowers it, whatever progress and metadata_result events arrive.
C12_ProgressBoundedMonotone ==
    [][ /\ uploadProgress' \in 0..100
        /\ UploadBegins => uploadProgress' = 0
        /\ (LatestUploadInFlight /\ ~UploadBegins)
           => uploadProgress' >= uploadProgress ]_vars

-----------------------------------------------------------------------------
(* C13 *)

\* C13: clearImage leaves the session reset: the conversation and the image
\* reference empty, the lock false and no timer pending.
C13_ClearImageResetsSession ==
    [][ clearImage
        => /\ messages' = <<>>
           /\ imageUrl' = NoImage
           /\ ~isProcessing'
           /\ responseTimeoutRef' = NoTimer
           /\ timers' = {} ]_vars

-----------------------------------------------------------------------------
(* C14 *)

\* C14: no event (message, analyze_image, clear_image) is handed to the
\* channel while it is disconnected.
C14_NoSendWhileDisconnected ==
    \A k \in 1..Len(sent) : sent[k].connected

-----------------------------------------------------------------------------
(* C15 *)

\* The lock is false and no timer is left, scheduled or in the handle.
ReleasedAndCancelled ==
    /\ ~isProcessing'
    /\ responseTimeoutRef' = NoTimer
    /\ timers' = {}

\* C15: a message, a metadata_result or an error event appends exactly one
\* assistant message, leaves the lock false and leaves no timer pending, in
\* whatever state it arrives.
C15_InboundEventReleases ==
    [][ /\ \A c \in ServerContents :
             OnMessage(c)
             => (messages' = Append(messages, AiMessage(c)) /\ ReleasedAndCancelled)
        /\ \A a \in Analyses :
             OnMetadataResult(a)
             => /\ \E text \in (Analyses \ {NoAnalysis}) \cup {ProcessedText} :
                     messages' = Append(messages, AiMessage(text))
                /\ ReleasedAndCancelled
        /\ \A m \in ErrorMessages :
             OnError(m)
             => (messages' = Append(messages, AiMessage("Error: " \o m))
                 /\ ReleasedAndCancelled) ]_vars

\* A question answered by a message event while its timer was running: the
\* answer follows the question, the lock is free and the timer is gone.
C15_Witness ==
    /\ isConnected
    /\ connects = 1
    /\ \E q \in Questions, c \in ServerContents :
         messages = <<UserMessage(q), AiMessage(c)>>
    /\ timerCount = 1
    /\ timers = {}
    /\ responseTimeoutRef = NoTimer
    /\ ~isProcessing
    /\ outstanding = <<>>

-----------------------------------------------------------------------------
(* C16 *)

\* C16: a disconnect releases the lock and cancels the pending timeout, and
\* leaves the conversation, the image reference and uploadProgress as they are.
C16_DisconnectReleasesOnly ==
    [][ OnDisconnect
        => /\ ~isProcessing'
           /\ responseTimeoutRef' = NoTimer
           /\ timers' = {}
           /\ UNCHANGED <<messages, imageUrl, uploadProgress>> ]_vars

\* The channel dropped while a question was waiting for its answer: the
\* question is still shown with the image, the lock is free, the timer is gone.
C16_Witness ==
    /\ ~isConnected
    /\ connects = 1
    /\ imageUrl # NoImage
    /\ \E q \in Questions : messages = <<UserMessage(q)>>
    /\ sent # <<>>
    /\ sent[Len(sent)].event = "message"
    /\ timerCount = 1
    /\ timers = {}
    /\ responseTimeoutRef = NoTimer
    /\ ~isProcessing

-----------------------------------------------------------------------------
(* C17 *)

\* C17: a typing event sets the lock to the status it carries and changes
\* nothing else of the session: no timer is armed or cancelled, no message is
\* appended, nothing is sent.
C17_TypingSetsLockOnly ==
    [][ \A status \in BOOLEAN :
          OnTyping(status)
          => /\ isProcessing' = status
             /\ UNCHANGED <<socketVars, messages, imageUrl, uploadProgress,
                            timerVars, xhrs, sent, storedPath>> ]_vars

\* typing{false} arrived while a question was waiting: the lock is free, the
\* question's timer is still running and nothing was appended after the question.
C17_Witness ==
    /\ isConnected
    /\ ~isProcessing
    /\ \E q \in Questions : messages = <<UserMessage(q)>>
    /\ responseTimeoutRef = 1
    /\ timers = {1}
    /\ outstanding # <<>>

-----------------------------------------------------------------------------
(* C18 *)

\* C18: uploadImage called while the channel is down sets the preview and
\* uploadProgress 0, appends exactly one notice, starts no XMLHttpRequest,
\* sends no event and does not take the lock.
C18_UploadWhileDisconnected ==
    [][ \A f \in Files :
          (~isConnected /\ uploadImage(f))
          => /\ imageUrl' = ObjectUrl(f)
             /\ uploadProgress' = 0
             /\ messages' = Append(messages, AiMessage(UploadDisconnectedText))
             /\ xhrs' = xhrs
             /\ sent' = sent
             /\ isProcessing' = isProcessing
             /\ ~isProcessing' ]_vars

\* An image picked before the channel ever connected: the preview, the
\* notice, and nothing else.
C18_Witness ==
    /\ ~isConnected
    /\ connects = 0
    /\ imageUrl = ObjectUrl(CHOOSE f \in Files : IsImageType(f.type))
    /\ uploadProgress = 0
    /\ messages = <<AiMessage(UploadDisconnectedText)>>
    /\ xhrs = <<>>
    /\ sent = <<>>
    /\ ~isProcessing

-----------------------------------------------------------------------------
(* C19 *)

\* C19: sendMessage called while there is no image is ignored: no message is
\* appended, the lock and the timer are unchanged and nothing is sent.
C19_AskWithoutImageIgnored ==
    [][ \A c \in Questions :
          (imageUrl = NoImage /\ sendMessage(c))
          => UNCHANGED <<messages, isProcessing, timerVars, sent>> ]_vars

\* A state in which a sendMessage call is ignored, and which the call leaves
\* as it is: the image was removed while a question was waiting, so the lock
\* is held and the timer runs, and there is no image to ask about.
C19_Witness ==
    /\ imageUrl = NoImage
    /\ isConnected
    /\ messages = <<>>
    /\ isProcessing
    /\ lockHolder.kind = "question"
    /\ responseTimeoutRef \in timers
    /\ sent # <<>>
    /\ sent[Len(sent)].event = "clear_image"
    /\ ENABLED (\E c \in Questions : sendMessage(c))

-----------------------------------------------------------------------------
(* C20 *)

\* An upload has been accepted at some time: its 'load' callback emitted
\* analyze_image (the log of sent events is never shortened).
UploadSucceeded == \E k \in 1..Len(sent) : sent[k].event = "analyze_image"

\* C20: the image reference that enables sendMessage is set only once an
\* upload has succeeded; as long as no upload has succeeded (in flight,
\* failed, or attempted while disconnected), a sendMessage call sends no
\* message event and appends nothing.
C20_AskOnlyAfterUploadSuccess ==
    [][ /\ (imageUrl' # NoImage /\ imageUrl = NoImage) => UploadSucceeded'
        /\ \A c \in Questions :
             (~UploadSucceeded /\ sendMessage(c))
             => (sent' = sent /\ messages' = messages) ]_vars

-----------------------------------------------------------------------------
(* C21 *)

\* The last analyze_image event emitted before the k-th event, 0 if none.
LastAnalyzeBefore(k) ==
    LET earlier == {j \in 1..(k - 1) : sent[j].event = "analyze_image"}
    IN  IF earlier = {} THEN 0 ELSE CHOOSE j \in earlier : \A i \in earlier : i <= j

\* A clear_image event was emitted between the j-th and the k-th event.
ClearedBetween(j, k) ==
    \E i \in (j + 1)..(k - 1) : sent[i].event = "clear_image"

\* C21: a message event sent after an accepted upload carries the file path
\* of the most recent accepted upload, the one its analyze_image event
\* carried, unless that image was cleared since, and then it does not carry it.
C21_MessageCarriesUploadedPath ==
    \A k \in 1..Len(sent) :
        (sent[k].event = "message" /\ LastAnalyzeBefore(k) # 0)
        => LET j == LastAnalyzeBefore(k)
           IN  IF ClearedBetween(j, k)
               THEN sent[k].image_path # sent[j].image_path
               ELSE sent[k].image_path = sent[j].image_path

-----------------------------------------------------------------------------
(* C22 *)

\* The identifiers of the connections that were dropped.
DroppedConnectionIds == IF isConnected THEN 1..(connects - 1) ELSE 1..connects

\* C22: the identifier attached to an upload is the identifier of the
\* connection that is current when the upload is submitted, never that of a
\* connection that was dropped.
C22_UploadCarriesCurrentConnection ==
    [][ \A f \in Files :
          (isConnected /\ uploadImage(f))
          => /\ Len(xhrs') = Len(xhrs) + 1
             /\ xhrs'[Len(xhrs')].socket_id = socketId
             /\ socketId = connects
             /\ xhrs'[Len(xhrs')].socket_id \notin DroppedConnectionIds ]_vars

\* Two uploads, one before and one after a reconnect, each with the
\* identifier of its own connection.
C22_Witness ==
    /\ Len(xhrs) = 2
    /\ connects = 2
    /\ xhrs[1].socket_id = 1
    /\ xhrs[2].socket_id = 2

-----------------------------------------------------------------------------
(* C23 *)

\* The state an ask issued while connected leaves: the lock held and the
\* timer of the handle scheduled.
AskPending ==
    /\ isProcessing
    /\ responseTimeoutRef # NoTimer
    /\ responseTimeoutRef \in timers

\* C23: after an ask issued while connected the lock eventually becomes false,
\* whatever the backend and the channel do or fail to do, because a timer
\* that stays scheduled fires.
C23_LockEventuallyFalls == AskPending ~> ~isProcessing

\* The timer of a question fired with no event from the backend and the
\* channel up all along: the timeout message follows the question, the lock
\* is free.
C23_Witness ==
    /\ isConnected
    /\ connects = 1
    /\ \E q \in Questions : messages = <<UserMessage(q), AiMessage(TimeoutText)>>
    /\ timerCount = 1
    /\ timers = {}
    /\ ~isProcessing

-----------------------------------------------------------------------------
(* C24 *)

\* C24: every step leaves the conversation unchanged, appends to its end
\* keeping what was there in the same order, or empties it in clearImage.
C24_HistoryAppendOnly ==
    [][ \/ messages' = messages
        \/ /\ Len(messages') > Len(messages)
           /\ SubSeq(messages', 1, Len(messages)) = messages
        \/ (messages' = <<>> /\ clearImage) ]_vars

\* A conversation of two messages of different kinds, in the order they were
\* appended: the notice of the analysis, then the user's question.
C24_Witness ==
    \E q \in Questions : messages = <<AiMessage(ProcessedText), UserMessage(q)>>

-----------------------------------------------------------------------------
(* C25 *)

\* C25: at most one timer is scheduled at any time, and the handle is
\* non-null exactly when one is: it then denotes that timer, scheduled and
\* not yet fired.
C25_SingleTimer ==
    /\ Cardinality(timers) <= 1
    /\ timers = IF responseTimeoutRef = NoTimer THEN {} ELSE {responseTimeoutRef}

\* A second ask made while the timer of the first was running: the first
\* timer was cleared, the second is the only one scheduled.
C25_Witness ==
    /\ timerCount = 2
    /\ responseTimeoutRef = 2
    /\ timers = {2}
    /\ \E q \in Questions : messages = <<UserMessage(q), UserMessage(q)>>

-----------------------------------------------------------------------------
(* C26 *)

\* C26: a disconnect leaves the uploads in flight as they are, and their
\* terminal callbacks, when they run while the channel is down, are honoured:
\* an accepted upload emits analyze_image with the server's path, a failed
\* one (a payload that reports a failure, a status outside 2xx, a failure of
\* the transport) appends its error message and leaves the lock false.
C26_DisconnectLeavesUploadRunning ==
    [][ /\ OnDisconnect => xhrs' = xhrs
        /\ \A i \in 1..MaxUploads :
             /\ \A r \in Responses :
                  (~isConnected /\ OnLoad(i, r))
                  => /\ AcceptedUpload(r)
                        => /\ Len(sent') = Len(sent) + 1
                           /\ sent'[Len(sent')].event = "analyze_image"
                           /\ sent'[Len(sent')].image_path = r.file_path
                     /\ UploadFailed(r)
                        => (OneAiMessageAppended /\ ~isProcessing')
             /\ (~isConnected /\ OnXhrError(i))
                => (OneAiMessageAppended /\ ~isProcessing') ]_vars

-----------------------------------------------------------------------------
(* C27 *)

\* C27: while the channel is disconnected the lock is false and no timer is
\* pending, scheduled or in the handle.
C27_DisconnectedMeansIdle ==
    ~isConnected => (~isProcessing /\ timers = {} /\ responseTimeoutRef = NoTimer)

\* After a disconnect, with the channel still down: an upload was accepted,
\* an image was picked and a question asked, and the lock is free.
C27_Witness ==
    /\ ~isConnected
    /\ connects = 1
    /\ Len(xhrs) = 1
    /\ xhrs[1].state = "done"
    /\ \E k \in 1..Len(sent) : sent[k].event = "analyze_image" /\ ~sent[k].connected
    /\ \E q \in Questions :
         messages = <<UserMessage(q), AiMessage(AskDisconnectedText)>>
    /\ ~isProcessing
    /\ timers = {}

=============================================================================
